---- MODULE Spec2Model ----
(***************************************************************************)
(* Model of wikidpad2markdown.py: the rewrite pipeline Wikidpad2Markdown   *)
(* (one action per statement of the function) and the file loop of RunMain.*)
(* A text is a sequence of one-character strings.  Every re.sub of the     *)
(* source is transcribed as a sequence of regex items and run by a         *)
(* backtracking matcher with Python's priorities (leftmost match, greedy   *)
(* or lazy quantifiers, MULTILINE anchors).                                *)
(***************************************************************************)
EXTENDS Integers, Sequences, FiniteSets, TLC

\* Wikidpad2Markdown: its arguments, its local markdown_text, the statement it
\* is at, and whether it has raised
VARIABLES wiki_source, remove_remaining_wikidpad, markdown_text, pc, raised

\* RunMain: the parsed options, the globbed files, the .md files beside them,
\* the loop's position, the converted text of the current file, what has been
\* read and written so far, and the exit code of the process
VARIABLES options, wiki_files, md_files, file_idx, main_pc, markdown_content, log,
          exit_code

convVars == <<wiki_source, remove_remaining_wikidpad, markdown_text, pc, raised>>
mainVars == <<options, wiki_files, md_files, file_idx, main_pc, markdown_content, log,
              exit_code>>
vars == <<convVars, mainVars>>

-----------------------------------------------------------------------------
(* Characters and character classes                                        *)

\* what \s matches and what str.strip() removes, among the model's characters
Whitespace == {" ", "\t", "\n", "\r"}

\* what \d matches
Digits == {"0", "1", "2", "3", "4", "5", "6", "7", "8", "9"}

\* a quantified character class: c matches iff (c \in set) # neg
Cls(neg, set, min, max, greedy) ==
    [k |-> "cls", neg |-> neg, set |-> set, min |-> min, max |-> max, greedy |-> greedy]

\* max = -1 stands for "no upper limit"
Lit(c)      == Cls(FALSE, {c}, 1, 1, TRUE)
Plus(c)     == Cls(FALSE, {c}, 1, -1, TRUE)
Opt(c)      == Cls(FALSE, {c}, 0, 1, TRUE)
WsStar      == Cls(FALSE, Whitespace, 0, -1, TRUE)
WsPlus      == Cls(FALSE, Whitespace, 1, -1, TRUE)
NonWsPlus   == Cls(TRUE, Whitespace, 1, -1, TRUE)
DigitPlus   == Cls(FALSE, Digits, 1, -1, TRUE)
DotStar     == Cls(TRUE, {"\n"}, 0, -1, TRUE)
DotPlus     == Cls(TRUE, {"\n"}, 1, -1, TRUE)
DotStarLazy == Cls(TRUE, {"\n"}, 0, -1, FALSE)
NotHashLazy == Cls(TRUE, {"#"}, 0, -1, FALSE)
Bol         == [k |-> "bol"]
Eol         == [k |-> "eol"]

ClsHas(it, c) == (c \in it.set) # it.neg

-----------------------------------------------------------------------------
(* The matcher                                                             *)

RECURSIVE Run(_, _, _, _)
\* how many consecutive characters of s from position i the class `it` accepts
Run(it, s, i, n) ==
    IF i + n > Len(s) \/ (it.max # -1 /\ n >= it.max) \/ ~ClsHas(it, s[i + n])
    THEN n
    ELSE Run(it, s, i, n + 1)

AtBol(s, i) == i = 1 \/ s[i - 1] = "\n"
AtEol(s, i) == i = Len(s) + 1 \/ s[i] = "\n"

RECURSIVE MatchFrom(_, _, _, _)
RECURSIVE TryCount(_, _, _, _, _, _, _)
\* Match items k.. of re at position i of s.  <<>> when there is no match; else
\* the start position of every item from k on, followed by the end of the match.
MatchFrom(re, k, s, i) ==
    IF k > Len(re) THEN <<i>>
    ELSE IF re[k].k = "bol"
    THEN IF AtBol(s, i)
         THEN LET r == MatchFrom(re, k + 1, s, i) IN IF r = <<>> THEN <<>> ELSE <<i>> \o r
         ELSE <<>>
    ELSE IF re[k].k = "eol"
    THEN IF AtEol(s, i)
         THEN LET r == MatchFrom(re, k + 1, s, i) IN IF r = <<>> THEN <<>> ELSE <<i>> \o r
         ELSE <<>>
    ELSE LET most == Run(re[k], s, i, 0) IN
         IF most < re[k].min THEN <<>>
         ELSE IF re[k].greedy
              THEN TryCount(re, k, s, i, most, -1, re[k].min)
              ELSE TryCount(re, k, s, i, re[k].min, 1, most)

\* the counts c, c + d, ..., last for item k, in that order (backtracking)
TryCount(re, k, s, i, c, d, last) ==
    LET r == MatchFrom(re, k + 1, s, i + c) IN
    IF r # <<>> THEN <<i>> \o r
    ELSE IF c = last THEN <<>>
    ELSE TryCount(re, k, s, i, c + d, d, last)

MStart(m) == m[1]
MEnd(m)   == m[Len(m)]
\* the text matched by items a..b of the regex
Group(s, m, a, b) == SubSeq(s, m[a], m[b + 1] - 1)

RECURSIVE FirstAlt(_, _, _, _)
\* the alternatives of a top-level A|B, tried in order at position i
FirstAlt(res, a, s, i) ==
    IF a > Len(res) THEN <<>>
    ELSE LET m == MatchFrom(res[a], 1, s, i) IN
         IF m # <<>> THEN m ELSE FirstAlt(res, a + 1, s, i)

RECURSIVE Search(_, _, _)
\* leftmost match starting at or after pos
Search(res, s, pos) ==
    IF pos > Len(s) + 1 THEN <<>>
    ELSE LET m == FirstAlt(res, 1, s, pos) IN
         IF m # <<>> THEN m ELSE Search(res, s, pos + 1)

RECURSIVE FindAll(_, _, _)
\* the non-overlapping matches re.sub replaces, left to right (no pattern of
\* the program matches the empty string)
FindAll(res, s, pos) ==
    LET m == Search(res, s, pos) IN
    IF m = <<>> THEN <<>>
    ELSE <<m>> \o FindAll(res, s, IF MEnd(m) > MStart(m) THEN MEnd(m) ELSE MEnd(m) + 1)

RECURSIVE Splice(_, _, _, _, _)
\* s with match ms[j] replaced by reps[j], for every j
Splice(s, ms, reps, j, pos) ==
    IF j > Len(ms) THEN SubSeq(s, pos, Len(s))
    ELSE SubSeq(s, pos, MStart(ms[j]) - 1) \o reps[j]
         \o Splice(s, ms, reps, j + 1, MEnd(ms[j]))

\* c repeated n times; Python's str * n is empty for n <= 0
Rep(c, n) == [j \in 1..(IF n > 0 THEN n ELSE 0) |-> c]

-----------------------------------------------------------------------------
(* Headings                                                                *)

\* a faulty variant: a single '+' instead of a run of them
HeadingRe_one_plus == <<Bol, Lit("+"), WsStar, DotPlus, Eol>>

\* r"^(\++)\s*(.+)$"
HeadingRe == <<Bol, Plus("+"), WsStar, DotPlus, Eol>>

Headings(s) ==
    LET ms == FindAll(<<HeadingRe>>, s, 1) IN
    Splice(s, ms,
           [j \in 1..Len(ms) |->
               Rep("#", Len(Group(s, ms[j], 2, 2))) \o <<" ">> \o Group(s, ms[j], 4, 4)],
           1, 1)

-----------------------------------------------------------------------------
(* Bold and italic                                                         *)

\* r'\*\*(.*?)\*\*'
BoldRe == <<Lit("*"), Lit("*"), DotStarLazy, Lit("*"), Lit("*")>>

Bold(s) ==
    LET ms == FindAll(<<BoldRe>>, s, 1) IN
    Splice(s, ms,
           [j \in 1..Len(ms) |-> <<"*", "*">> \o Group(s, ms[j], 3, 3) \o <<"*", "*">>],
           1, 1)

\* r'//(.*?)//'
ItalicRe == <<Lit("/"), Lit("/"), DotStarLazy, Lit("/"), Lit("/")>>

Italic(s) ==
    LET ms == FindAll(<<ItalicRe>>, s, 1) IN
    Splice(s, ms, [j \in 1..Len(ms) |-> <<"_">> \o Group(s, ms[j], 3, 3) \o <<"_">>], 1, 1)

-----------------------------------------------------------------------------
(* Anchors                                                                 *)

AnchorWord == <<"a", "n", "c", "h", "o", "r", ":">>
AnchorTagOpen == <<"<", "a", " ", "n", "a", "m", "e", "=", "\"">>
AnchorTagClose == <<"\"", ">", "<", "/", "a", ">">>

LitSeq(w) == [j \in 1..Len(w) |-> Lit(w[j])]

\* r'anchor:\s*(\S+)'
AnchorRe == LitSeq(AnchorWord) \o <<WsStar, NonWsPlus>>

Anchors(s) ==
    LET ms == FindAll(<<AnchorRe>>, s, 1) IN
    Splice(s, ms,
           [j \in 1..Len(ms) |-> AnchorTagOpen \o Group(s, ms[j], 9, 9) \o AnchorTagClose],
           1, 1)

\* r'\[(.*?)\]\!(\S+)'
AnchorRefRe == <<Lit("["), DotStarLazy, Lit("]"), Lit("!"), NonWsPlus>>

AnchorRefs(s) ==
    LET ms == FindAll(<<AnchorRefRe>>, s, 1) IN
    Splice(s, ms,
           [j \in 1..Len(ms) |->
               <<"[">> \o Group(s, ms[j], 2, 2) \o <<"#">> \o Group(s, ms[j], 5, 5) \o <<"]">>],
           1, 1)

-----------------------------------------------------------------------------
(* Links                                                                   *)

\* a faulty variant: the address group greedy, r'\[([^#]*)\|(.*?)\]'
LinkPipedRe_greedy_address ==
    <<Lit("["), Cls(TRUE, {"#"}, 0, -1, TRUE), Lit("|"), DotStarLazy, Lit("]")>>

\* r'\[([^#]*?)\|(.*?)\]'
LinkPipedRe == <<Lit("["), NotHashLazy, Lit("|"), DotStarLazy, Lit("]")>>

\* a faulty variant: the groups in the order of the source's comment,
\* [address](title)
LinksPiped_swapped(s) ==
    LET ms == FindAll(<<LinkPipedRe>>, s, 1) IN
    Splice(s, ms,
           [j \in 1..Len(ms) |->
               <<"[">> \o Group(s, ms[j], 2, 2) \o <<"]", "(">> \o Group(s, ms[j], 4, 4)
               \o <<")">>],
           1, 1)

LinksPiped(s) ==
    LET ms == FindAll(<<LinkPipedRe>>, s, 1) IN
    Splice(s, ms,
           [j \in 1..Len(ms) |->
               <<"[">> \o Group(s, ms[j], 4, 4) \o <<"]", "(">> \o Group(s, ms[j], 2, 2)
               \o <<")">>],
           1, 1)

\* r'\[([^#]*?)\]'
LinkPlainRe == <<Lit("["), NotHashLazy, Lit("]")>>

LinksPlain(s) ==
    LET ms == FindAll(<<LinkPlainRe>>, s, 1) IN
    Splice(s, ms, [j \in 1..Len(ms) |-> <<"[">> \o Group(s, ms[j], 2, 2) \o <<"]">>], 1, 1)

-----------------------------------------------------------------------------
(* Bullets, list indentation, horizontal lines                             *)

\* r'^(\*+)\s+(.*)$'
BulletRe == <<Bol, Plus("*"), WsPlus, DotStar, Eol>>

Bullets(s) ==
    LET ms == FindAll(<<BulletRe>>, s, 1) IN
    Splice(s, ms,
           [j \in 1..Len(ms) |-> Group(s, ms[j], 2, 2) \o <<" ">> \o Group(s, ms[j], 4, 4)],
           1, 1)

\* r"^(\s+)([\*\d])"
IndentRe == <<Bol, WsPlus, Cls(FALSE, {"*"} \cup Digits, 1, 1, TRUE)>>

\* a faulty variant: the division first, 2 * (w // 4) - 1
IndentWidth_floor_first(w) == (2 * (w \div 4)) - 1

\* 2 * len(match.group(1))//4 - 1: * and // associate to the left
IndentWidth(w) == ((2 * w) \div 4) - 1

ListIndent(s) ==
    LET ms == FindAll(<<IndentRe>>, s, 1) IN
    Splice(s, ms,
           [j \in 1..Len(ms) |->
               Rep(" ", IndentWidth(Len(Group(s, ms[j], 2, 2)))) \o Group(s, ms[j], 3, 3)],
           1, 1)

\* r'^----+$'
HRuleRe == <<Bol, Lit("-"), Lit("-"), Lit("-"), Plus("-"), Eol>>

HorizontalLines(s) ==
    LET ms == FindAll(<<HRuleRe>>, s, 1) IN
    Splice(s, ms, [j \in 1..Len(ms) |-> <<"-", "-", "-">>], 1, 1)

-----------------------------------------------------------------------------
(* Tables                                                                  *)

\* r"^(<<\|\s*|>>\s*)\n": the two alternatives, in order
FrameRes == << <<Bol, Lit("<"), Lit("<"), Lit("|"), WsStar, Lit("\n")>>,
               <<Bol, Lit(">"), Lit(">"), WsStar, Lit("\n")>> >>

TableFrames(s) ==
    LET ms == FindAll(FrameRes, s, 1) IN
    Splice(s, ms, [j \in 1..Len(ms) |-> <<>>], 1, 1)

RECURSIVE LStrip(_)
LStrip(s) == IF s # <<>> /\ Head(s) \in Whitespace THEN LStrip(Tail(s)) ELSE s

RECURSIVE RStrip(_)
RStrip(s) ==
    IF s # <<>> /\ s[Len(s)] \in Whitespace THEN RStrip(SubSeq(s, 1, Len(s) - 1)) ELSE s

\* str.strip()
Strip(s) == RStrip(LStrip(s))

RECURSIVE Split(_, _, _)
\* str.split(sep) for a one-character sep: the cells, cur being the open one
Split(s, sep, cur) ==
    IF s = <<>> THEN <<cur>>
    ELSE IF Head(s) = sep THEN <<cur>> \o Split(Tail(s), sep, <<>>)
    ELSE Split(Tail(s), sep, Append(cur, Head(s)))

RECURSIVE Join(_, _)
\* sep.join(parts)
Join(parts, sep) ==
    IF parts = <<>> THEN <<>>
    ELSE IF Len(parts) = 1 THEN parts[1]
    ELSE parts[1] \o sep \o Join(Tail(parts), sep)

\* "| " + " | ".join( elem.strip() for elem in match.group(0).split("|")) + " |"
FormatRow(line) ==
    LET cells == Split(line, "|", <<>>) IN
    <<"|", " ">> \o Join([j \in 1..Len(cells) |-> Strip(cells[j])], <<" ", "|", " ">>)
    \o <<" ", "|">>

\* r"^(.*\|.*\|.*)$"
RowRe == <<Bol, DotStar, Lit("|"), DotStar, Lit("|"), DotStar, Eol>>

TableRows(s) ==
    LET ms == FindAll(<<RowRe>>, s, 1) IN
    Splice(s, ms, [j \in 1..Len(ms) |-> FormatRow(Group(s, ms[j], 1, 7))], 1, 1)

RECURSIVE SplitLines(_, _)
\* str.splitlines(): lines end at "\r\n", "\n" or "\r"; no empty last line
SplitLines(s, cur) ==
    IF s = <<>> THEN (IF cur = <<>> THEN <<>> ELSE <<cur>>)
    ELSE IF Head(s) = "\r" /\ Len(s) >= 2 /\ s[2] = "\n"
    THEN <<cur>> \o SplitLines(Tail(Tail(s)), <<>>)
    ELSE IF Head(s) \in {"\n", "\r"} THEN <<cur>> \o SplitLines(Tail(s), <<>>)
    ELSE SplitLines(Tail(s), Append(cur, Head(s)))

Count(s, c) == Cardinality({j \in 1..Len(s) : s[j] = c})

RECURSIVE Times(_, _)
\* str * n for a string
Times(w, n) == IF n <= 0 THEN <<>> ELSE w \o Times(w, n - 1)

\* a faulty variant: the first row taken at index 1 of rows, which a block of
\* one row does not have
table_add_header_second_row(table_source) ==
    LET rows == SplitLines(table_source, <<>>) IN
    IF Len(rows) < 2 THEN [raised |-> TRUE, text |-> <<>>]
    ELSE [raised |-> FALSE,
          text |-> Join(<<rows[2],
                          Times(<<"|", " ", "-", "-", " ">>, Count(rows[2], "|") - 1)
                          \o <<"|">>>> \o Tail(rows),
                        <<"\n">>)]

\* table_add_header: raised is the IndexError of rows[0] on an empty list
table_add_header(table_source) ==
    LET rows == SplitLines(table_source, <<>>) IN
    IF rows = <<>> THEN [raised |-> TRUE, text |-> <<>>]
    ELSE [raised |-> FALSE,
          text |-> Join(<<rows[1],
                          Times(<<"|", " ", "-", "-", " ">>, Count(rows[1], "|") - 1)
                          \o <<"|">>>> \o Tail(rows),
                        <<"\n">>)]

\* r"^\|.*\|\r?\n", one round of the group that (...)+ repeats
HeaderLineRe == <<Bol, Lit("|"), DotStar, Lit("|"), Opt("\r"), Lit("\n")>>

RECURSIVE MatchBlock(_, _)
\* (^\|.*\|\r?\n)+ at position i: the group as often as it matches (greedy);
\* <<start, end>> or <<>>
MatchBlock(s, i) ==
    LET m == MatchFrom(HeaderLineRe, 1, s, i) IN
    IF m = <<>> THEN <<>>
    ELSE LET more == MatchBlock(s, MEnd(m)) IN
         IF more = <<>> THEN <<i, MEnd(m)>> ELSE <<i, MEnd(more)>>

RECURSIVE FindBlocks(_, _)
FindBlocks(s, pos) ==
    IF pos > Len(s) THEN <<>>
    ELSE LET m == MatchBlock(s, pos) IN
         IF m = <<>> THEN FindBlocks(s, pos + 1)
         ELSE <<m>> \o FindBlocks(s, MEnd(m))

TableHeaderCalls(s) ==
    LET ms == FindBlocks(s, 1) IN
    [j \in 1..Len(ms) |-> table_add_header(SubSeq(s, ms[j][1], ms[j][2] - 1))]

TableHeaders(s) ==
    LET ms == FindBlocks(s, 1)
        calls == TableHeaderCalls(s)
    IN Splice(s, ms, [j \in 1..Len(ms) |-> calls[j].text], 1, 1)

TableHeadersRaise(s) == \E j \in 1..Len(TableHeaderCalls(s)) : TableHeaderCalls(s)[j].raised

-----------------------------------------------------------------------------
(* Removal of remaining WikidPad syntax, final trimming                    *)

\* r'^\s*\*\s*\d+\s*'
BulletNumberRe == <<Bol, WsStar, Lit("*"), WsStar, DigitPlus, WsStar>>

BulletNumbers(s) ==
    LET ms == FindAll(<<BulletNumberRe>>, s, 1) IN
    Splice(s, ms, [j \in 1..Len(ms) |-> <<>>], 1, 1)

\* r'anchor:'
AnchorWordRe == LitSeq(AnchorWord)

AnchorWords(s) ==
    LET ms == FindAll(<<AnchorWordRe>>, s, 1) IN
    Splice(s, ms, [j \in 1..Len(ms) |-> <<>>], 1, 1)

\* r'\[.*?\]'
BracketRe == <<Lit("["), DotStarLazy, Lit("]")>>

Brackets(s) ==
    LET ms == FindAll(<<BracketRe>>, s, 1) IN
    Splice(s, ms, [j \in 1..Len(ms) |-> <<>>], 1, 1)

RemoveRemaining(s) == Brackets(AnchorWords(BulletNumbers(s)))

RECURSIVE ReplaceCRLF(_)
\* str.replace('\r\n', '\n'): one pass, left to right
ReplaceCRLF(s) ==
    IF s = <<>> THEN <<>>
    ELSE IF Head(s) = "\r" /\ Len(s) >= 2 /\ s[2] = "\n"
    THEN <<"\n">> \o ReplaceCRLF(Tail(Tail(s)))
    ELSE <<Head(s)>> \o ReplaceCRLF(Tail(s))

-----------------------------------------------------------------------------
(* The source texts the model is run on                                    *)

MaxDepth == 3
MaxTitleLen == 2
MaxAddrTokens == 2
MaxTitleTokens == 1
MaxRows == 2
MaxLines == 2
MaxIndent == 8
MaxCRLen == 5
MaxCleanLen == 4
MaxBarLen == 3
MaxPipes == 3

SeqsUpTo(S, n) == UNION {[1..k -> S] : k \in 0..n}

RECURSIVE Flatten(_)
Flatten(parts) == IF parts = <<>> THEN <<>> ELSE Head(parts) \o Flatten(Tail(parts))

\* headings: n '+', one space, a title of word characters; alone, or between
\* plain lines
WordChars == {"a", "1", "_"}
HeadingTitles == SeqsUpTo(WordChars, MaxTitleLen) \ {<<>>}
HeadingBefore == {<<>>, <<"x", "\n">>}
HeadingAfter == {<<>>, <<"\n", "y">>}
HeadingLine(n, title) == Rep("+", n) \o <<" ">> \o title
HeadingSources ==
    {b \o HeadingLine(n, title) \o a :
        b \in HeadingBefore, a \in HeadingAfter, n \in 1..MaxDepth, title \in HeadingTitles}

\* piped links "[address|title]"
AddrTokens == {<<"/", "/">>, AnchorWord, <<"h", "t", "t", "p", ":", "/", "/", "x">>, <<" ">>}
TitleTokens == {<<"T", "i", "t", "l", "e">>, <<"/", "/">>, <<"#">>}
LinkAddresses == {Flatten(ts) : ts \in SeqsUpTo(AddrTokens, MaxAddrTokens)}
LinkTitles == {Flatten(ts) : ts \in SeqsUpTo(TitleTokens, MaxTitleTokens)}
LinkText(address, title) == <<"[">> \o address \o <<"|">> \o title \o <<"]">>
LinkSources == {LinkText(address, title) : address \in LinkAddresses, title \in LinkTitles}

\* tables: a run of rows, followed by the end of the text, a line break, or more
\* text
TableRowCells == {<<"a", "b", "c">>, <<"d", "e", "f">>}
RowText(cells) == Join([j \in 1..Len(cells) |-> <<cells[j]>>], <<"|">>)
TableRuns == SeqsUpTo(TableRowCells, MaxRows) \ {<<>>}
TableEndings == {<<>>, <<"\n">>, <<"\n", "x">>, <<"\n", "\n", "x">>}
TableText(run, ending) ==
    Join([j \in 1..Len(run) |-> RowText(run[j])], <<"\n">>) \o ending
TableSources == {TableText(run, ending) : run \in TableRuns, ending \in TableEndings}

\* documents of plain lines and lines of hyphens, with LF or CRLF line ends
RuleLines == {<<"x">>, <<"-", "-", "-">>, <<"-", "-", "-", "-">>, <<"-", "-", "-", "-", "-">>}
LineEnds == {<<"\n">>, <<"\r", "\n">>}
RuleText(lines, eol, last) == Join(lines, eol) \o last
RuleSources ==
    {RuleText(lines, eol, last) :
        lines \in SeqsUpTo(RuleLines, MaxLines) \ {<<>>}, eol \in LineEnds,
        last \in {<<>>} \cup LineEnds}

\* an indented list line after a plain line
IndentChars == {" ", "\t"}
IndentMarkers == {"*", "1"}
IndentRests == {<<>>, <<" ", "b">>}
IndentText(ws, w, marker, rest) == <<"a", "\n">> \o Rep(ws, w) \o <<marker>> \o rest
IndentSources ==
    {IndentText(ws, w, marker, rest) :
        ws \in IndentChars, w \in 1..MaxIndent, marker \in IndentMarkers, rest \in IndentRests}

\* a bracketed span put at every place of a text
SpanBases == {AnchorWord, AnchorWord \o <<" ", "x">>, <<"x", "y">>}
Spans == {<<"[", "x", "]">>, <<"[", "a", "|", "b", "]">>}
SpanText(base, span, at) == SubSeq(base, 1, at) \o span \o SubSeq(base, at + 1, Len(base))
SpanSources ==
    UNION {{SpanText(base, span, at) : span \in Spans, at \in 0..Len(base)} : base \in SpanBases}

\* every short text of letters and line-end characters
CRChars == {"a", "\r", "\n"}
CRSources == SeqsUpTo(CRChars, MaxCRLen)

\* every short text of letters, digits, blanks and line breaks
CleanChars == {"a", "1", " ", "\n"}
CleanSources == SeqsUpTo(CleanChars, MaxCleanLen)

\* every short text of pipes, brackets and line breaks
BarChars == {"|", "[", "\n"}
BarSources == SeqsUpTo(BarChars, MaxBarLen)

\* bracketed links with several pipes, "[s1|s2|...|sn]", alone or inside a line
PipeSegments == {<<>>, <<"a">>, <<"b">>, <<"c">>, <<"#">>}
PipeSegmentLists == UNION {[1..(p + 1) -> PipeSegments] : p \in 2..MaxPipes}
PipeContexts == {<< <<>>, <<>> >>, << <<"x", " ">>, <<" ", "y">> >>}
PipeText(segs, ctx) == ctx[1] \o <<"[">> \o Join(segs, <<"|">>) \o <<"]">> \o ctx[2]
PipeSources == {PipeText(segs, ctx) : segs \in PipeSegmentLists, ctx \in PipeContexts}

Sources ==
    PipeSources \cup BarSources \cup HeadingSources \cup LinkSources \cup TableSources \cup RuleSources \cup IndentSources
    \cup SpanSources \cup CRSources \cup CleanSources

-----------------------------------------------------------------------------
(* Files and paths of RunMain                                              *)

EXIT_OK == 0
EXIT_CRITICAL == 4
\* the process is still running
NoExit == "running"

MaxFiles == 2

DotWiki == <<".", "w", "i", "k", "i">>
DotMd == <<".", "m", "d">>
DotHtml == <<".", "h", "t", "m", "l">>
\* the directory of --wikidpad and the directory of --out
InputDir == <<"p">>
OutputDir == <<"o", "u", "t">>

\* os.path.join of a directory and a name
PathJoin(dir, name) == dir \o <<"/">> \o name

RECURSIVE basename(_)
\* os.path.basename: what follows the last "/"
basename(path) ==
    IF \E j \in 1..Len(path) : path[j] = "/" THEN basename(Tail(path)) ELSE path

RECURSIVE rstrip(_, _)
\* str.rstrip(chars): drops every trailing character that is one of chars
rstrip(s, chars) ==
    IF s # <<>> /\ s[Len(s)] \in {chars[j] : j \in 1..Len(chars)}
    THEN rstrip(SubSeq(s, 1, Len(s) - 1), chars)
    ELSE s

\* title = fname.rstrip(".wiki")
title(file) == rstrip(basename(file), DotWiki)

\* os.path.join( options.output_dir, f"{title}.md")
target_path(file) == PathJoin(OutputDir, title(file) \o DotMd)

\* os.path.join( options.output_dir, f"{title}.html")
target_path_html(file) == PathJoin(OutputDir, title(file) \o DotHtml)

\* verify_path = _file.rstrip(".wiki") + ".md"
verify_path(file) == rstrip(file, DotWiki) \o DotMd

\* the base names of the .wiki files, and the lists glob may return
BaseNames == {<<"a">>, <<"a", "k">>, <<"b", ".">>}
WikiFile(base) == PathJoin(InputDir, base \o DotWiki)
FileLists ==
    {fs \in SeqsUpTo({WikiFile(b) : b \in BaseNames}, MaxFiles) :
        fs # <<>> /\ \A i, j \in 1..Len(fs) : i # j => fs[i] # fs[j]}

\* what a .wiki file holds: a heading with its own name
BaseOf(file) == SubSeq(basename(file), 1, Len(basename(file)) - Len(DotWiki))
FileContent(file) == <<"+", " ">> \o BaseOf(file)

\* the reference file meant for a .wiki file: same base name, .md, beside it
ReferencePath(file) == SubSeq(file, 1, Len(file) - Len(DotWiki)) \o DotMd

\* the .md files beside the sources: for each source none, one holding the
\* expected Markdown, one holding it with other blanks, or one holding another
\* text
ReferenceKinds == {"none", "same", "blanks", "other"}
ReferenceFiles(files, refs) ==
    [path \in {ReferencePath(files[i]) : i \in {j \in 1..Len(files) : refs[j] # "none"}} |->
        LET i == CHOOSE j \in 1..Len(files) : ReferencePath(files[j]) = path IN
        IF refs[i] = "same" THEN <<"#", " ">> \o BaseOf(files[i])
        ELSE IF refs[i] = "blanks" THEN <<"#", " ", " ">> \o BaseOf(files[i]) \o <<" ">>
        ELSE <<"#", " ", "z">>]

RECURSIVE Words(_, _)
\* str.split(): the words between runs of whitespace
Words(s, cur) ==
    IF s = <<>> THEN (IF cur = <<>> THEN <<>> ELSE <<cur>>)
    ELSE IF Head(s) \in Whitespace
    THEN (IF cur = <<>> THEN <<>> ELSE <<cur>>) \o Words(Tail(s), <<>>)
    ELSE Words(Tail(s), Append(cur, Head(s)))

\* ' '.join(line.split())
reduce_whitespaces(line) == Join(Words(line, <<>>), <<" ">>)

\* better_diff(left = the reference's lines, right = the converted lines,
\* skip_equal, skip_whitespace_changes): TRUE when it reports a difference
better_diff(left, right) ==
    LET l == SplitLines(left, <<>>)
        r == SplitLines(right, <<>>)
    IN [j \in 1..Len(l) |-> reduce_whitespaces(l[j])]
       # [j \in 1..Len(r) |-> reduce_whitespaces(r[j])]

-----------------------------------------------------------------------------
(* Wikidpad2Markdown, statement by statement                               *)

Init ==
    /\ wiki_source \in Sources
    /\ remove_remaining_wikidpad \in BOOLEAN
    /\ markdown_text = wiki_source
    /\ pc = "headings"
    /\ raised = FALSE
    /\ options = [verify |-> FALSE, Strict |-> TRUE, render |-> FALSE,
                  ConfluenceURL |-> FALSE]
    /\ wiki_files = <<>>
    /\ md_files = <<>>
    /\ file_idx = 1
    /\ main_pc = "idle"
    /\ markdown_content = <<>>
    /\ log = <<>>
    /\ exit_code = NoExit

ReplaceHeadings ==
    /\ pc = "headings"
    /\ markdown_text' = Headings(wiki_source)
    /\ pc' = "bold"
    /\ UNCHANGED <<wiki_source, remove_remaining_wikidpad, raised, mainVars>>

ReplaceBold ==
    /\ pc = "bold"
    /\ markdown_text' = Bold(markdown_text)
    /\ pc' = "italic"
    /\ UNCHANGED <<wiki_source, remove_remaining_wikidpad, raised, mainVars>>

ReplaceItalic ==
    /\ pc = "italic"
    /\ markdown_text' = Italic(markdown_text)
    /\ pc' = "anchors"
    /\ UNCHANGED <<wiki_source, remove_remaining_wikidpad, raised, mainVars>>

ReplaceAnchors ==
    /\ pc = "anchors"
    /\ markdown_text' = Anchors(markdown_text)
    /\ pc' = "anchor_refs"
    /\ UNCHANGED <<wiki_source, remove_remaining_wikidpad, raised, mainVars>>

ReplaceAnchorRefs ==
    /\ pc = "anchor_refs"
    /\ markdown_text' = AnchorRefs(markdown_text)
    /\ pc' = "links_piped"
    /\ UNCHANGED <<wiki_source, remove_remaining_wikidpad, raised, mainVars>>

ReplaceLinksPiped ==
    /\ pc = "links_piped"
    /\ markdown_text' = LinksPiped(markdown_text)
    /\ pc' = "links_plain"
    /\ UNCHANGED <<wiki_source, remove_remaining_wikidpad, raised, mainVars>>

ReplaceLinksPlain ==
    /\ pc = "links_plain"
    /\ markdown_text' = LinksPlain(markdown_text)
    /\ pc' = "bullets"
    /\ UNCHANGED <<wiki_source, remove_remaining_wikidpad, raised, mainVars>>

ReplaceBullets ==
    /\ pc = "bullets"
    /\ markdown_text' = Bullets(markdown_text)
    /\ pc' = "lists"
    /\ UNCHANGED <<wiki_source, remove_remaining_wikidpad, raised, mainVars>>

ReplaceLists ==
    /\ pc = "lists"
    /\ markdown_text' = ListIndent(markdown_text)
    /\ pc' = "lines"
    /\ UNCHANGED <<wiki_source, remove_remaining_wikidpad, raised, mainVars>>

ReplaceHorizontalLines ==
    /\ pc = "lines"
    /\ markdown_text' = HorizontalLines(markdown_text)
    /\ pc' = "frames"
    /\ UNCHANGED <<wiki_source, remove_remaining_wikidpad, raised, mainVars>>

ReplaceTableFrames ==
    /\ pc = "frames"
    /\ markdown_text' = TableFrames(markdown_text)
    /\ pc' = "rows"
    /\ UNCHANGED <<wiki_source, remove_remaining_wikidpad, raised, mainVars>>

ReplaceTableRows ==
    /\ pc = "rows"
    /\ markdown_text' = TableRows(markdown_text)
    /\ pc' = "headers"
    /\ UNCHANGED <<wiki_source, remove_remaining_wikidpad, raised, mainVars>>

\* the re.sub that calls table_add_header; an exception of the callback leaves
\* the function
ReplaceTableHeaders ==
    /\ pc = "headers"
    /\ IF TableHeadersRaise(markdown_text)
       THEN /\ raised' = TRUE
            /\ pc' = "raised"
            /\ UNCHANGED markdown_text
       ELSE /\ raised' = FALSE
            /\ pc' = "remove"
            /\ markdown_text' = TableHeaders(markdown_text)
    /\ UNCHANGED <<wiki_source, remove_remaining_wikidpad, mainVars>>

\* if remove_remaining_wikidpad: the three re.sub of the branch
RemoveRemainingSyntax ==
    /\ pc = "remove"
    /\ markdown_text' = IF remove_remaining_wikidpad
                        THEN RemoveRemaining(markdown_text)
                        ELSE markdown_text
    /\ pc' = "strip"
    /\ UNCHANGED <<wiki_source, remove_remaining_wikidpad, raised, mainVars>>

StripText ==
    /\ pc = "strip"
    /\ markdown_text' = Strip(markdown_text)
    /\ pc' = "crlf"
    /\ UNCHANGED <<wiki_source, remove_remaining_wikidpad, raised, mainVars>>

ReplaceCarriageReturns ==
    /\ pc = "crlf"
    /\ markdown_text' = ReplaceCRLF(markdown_text)
    /\ pc' = "return"
    /\ UNCHANGED <<wiki_source, remove_remaining_wikidpad, raised, mainVars>>

Next ==
    \/ ReplaceHeadings
    \/ ReplaceBold
    \/ ReplaceItalic
    \/ ReplaceAnchors
    \/ ReplaceAnchorRefs
    \/ ReplaceLinksPiped
    \/ ReplaceLinksPlain
    \/ ReplaceBullets
    \/ ReplaceLists
    \/ ReplaceHorizontalLines
    \/ ReplaceTableFrames
    \/ ReplaceTableRows
    \/ ReplaceTableHeaders
    \/ RemoveRemainingSyntax
    \/ StripText
    \/ ReplaceCarriageReturns

Spec == Init /\ [][Next]_vars

-----------------------------------------------------------------------------
(* RunMain                                                                 *)

InitMain ==
    /\ wiki_source = <<>>
    /\ remove_remaining_wikidpad = FALSE
    /\ markdown_text = <<>>
    /\ pc = "idle"
    /\ raised = FALSE
    /\ options \in [verify : BOOLEAN, Strict : BOOLEAN, render : BOOLEAN,
                    ConfluenceURL : BOOLEAN]
    /\ wiki_files \in FileLists
    /\ \E refs \in [1..Len(wiki_files) -> ReferenceKinds] :
           md_files = ReferenceFiles(wiki_files, refs)
    /\ file_idx = 1
    /\ main_pc = "loop"
    /\ markdown_content = <<>>
    /\ log = <<>>
    /\ exit_code = NoExit

_file == wiki_files[file_idx]

\* for _file in wiki_files: open, read, and the call
\* Wikidpad2Markdown( wiki_content, remove_remaining_wikidpad=False)
ReadAndTransform ==
    /\ main_pc = "loop"
    /\ file_idx <= Len(wiki_files)
    /\ log' = Append(log, [op |-> "read", file |-> file_idx, path |-> _file])
    /\ wiki_source' = FileContent(_file)
    /\ remove_remaining_wikidpad' = FALSE
    /\ markdown_text' = FileContent(_file)
    /\ pc' = "headings"
    /\ raised' = FALSE
    /\ main_pc' = "transform"
    /\ UNCHANGED <<options, wiki_files, md_files, file_idx, markdown_content, exit_code>>

\* markdown_content = the value the call returns; an exception leaves RunMain
\* and __main__ ends the process with EXIT_CRITICAL
Transformed ==
    /\ main_pc = "transform"
    /\ pc \in {"return", "raised"}
    /\ IF pc = "return"
       THEN /\ markdown_content' = markdown_text
            /\ main_pc' = "write"
            /\ UNCHANGED exit_code
       ELSE /\ main_pc' = "exit"
            /\ exit_code' = EXIT_CRITICAL
            /\ UNCHANGED markdown_content
    /\ pc' = "idle"
    /\ UNCHANGED <<options, wiki_files, md_files, file_idx, log, wiki_source,
                   remove_remaining_wikidpad, markdown_text, raised>>

\* write out file
WriteMarkdown ==
    /\ main_pc = "write"
    /\ log' = Append(log, [op |-> "write_md", file |-> file_idx, path |-> target_path(_file)])
    /\ main_pc' = "verify"
    /\ UNCHANGED <<options, wiki_files, md_files, file_idx, markdown_content, exit_code,
                   convVars>>

\* a faulty variant: a difference is only logged, whatever options.Strict is
Verify_warn_only ==
    /\ main_pc = "verify"
    /\ IF ~options.verify
       THEN /\ main_pc' = "render"
            /\ UNCHANGED <<log, exit_code>>
       ELSE IF verify_path(_file) \notin DOMAIN md_files
       THEN /\ main_pc' = "exit"
            /\ exit_code' = EXIT_CRITICAL
            /\ UNCHANGED log
       ELSE /\ log' = Append(log, [op |-> "read_verify", file |-> file_idx,
                                   path |-> verify_path(_file)])
            /\ main_pc' = "render"
            /\ UNCHANGED exit_code
    /\ UNCHANGED <<options, wiki_files, md_files, file_idx, markdown_content, convVars>>

\* verify: open() of a missing file raises, which __main__ turns into
\* sys.exit(EXIT_CRITICAL)
Verify ==
    /\ main_pc = "verify"
    /\ IF ~options.verify
       THEN /\ main_pc' = "render"
            /\ UNCHANGED <<log, exit_code>>
       ELSE IF verify_path(_file) \notin DOMAIN md_files
       THEN /\ main_pc' = "exit"
            /\ exit_code' = EXIT_CRITICAL
            /\ UNCHANGED log
       ELSE /\ log' = Append(log, [op |-> "read_verify", file |-> file_idx,
                                   path |-> verify_path(_file)])
            /\ IF better_diff(md_files[verify_path(_file)], markdown_content)
                  /\ options.Strict
               THEN /\ main_pc' = "exit"
                    /\ exit_code' = EXIT_CRITICAL
               ELSE /\ main_pc' = "render"
                    /\ UNCHANGED exit_code
    /\ UNCHANGED <<options, wiki_files, md_files, file_idx, markdown_content, convVars>>

\* render to HTML
RenderHtml ==
    /\ main_pc = "render"
    /\ log' = IF options.render
              THEN Append(log, [op |-> "write_html", file |-> file_idx,
                                path |-> target_path_html(_file)])
              ELSE log
    /\ main_pc' = "upload"
    /\ UNCHANGED <<options, wiki_files, md_files, file_idx, markdown_content, exit_code,
                   convVars>>

\* write to confluence, then the next file
Upload ==
    /\ main_pc = "upload"
    /\ log' = IF options.ConfluenceURL
              THEN Append(log, [op |-> "upload", file |-> file_idx, path |-> title(_file)])
              ELSE log
    /\ file_idx' = file_idx + 1
    /\ main_pc' = "loop"
    /\ UNCHANGED <<options, wiki_files, md_files, markdown_content, exit_code, convVars>>

\* the loop is over: "done.", and the process ends normally
Finish ==
    /\ main_pc = "loop"
    /\ file_idx > Len(wiki_files)
    /\ main_pc' = "done"
    /\ exit_code' = EXIT_OK
    /\ UNCHANGED <<options, wiki_files, md_files, file_idx, markdown_content, log, convVars>>

NextMain ==
    \/ Next
    \/ ReadAndTransform
    \/ Transformed
    \/ WriteMarkdown
    \/ Verify
    \/ RenderHtml
    \/ Upload
    \/ Finish

SpecMain == InitMain /\ [][NextMain]_vars

-----------------------------------------------------------------------------
(* Properties                                                              *)

\* w occurs in s
Occurs(w, s) == \E i \in 1..Len(s) : i + Len(w) - 1 <= Len(s) /\ SubSeq(s, i, i + Len(w) - 1) = w

Lines(s) == Split(s, "\n", <<>>)

IsPrefix(p, s) == Len(p) <= Len(s) /\ SubSeq(s, 1, Len(p)) = p

\* the statements of the function; each has an action whose only guard is pc
FunctionLabels ==
    {"headings", "bold", "italic", "anchors", "anchor_refs", "links_piped", "links_plain",
     "bullets", "lists", "lines", "frames", "rows", "headers", "remove", "strip", "crlf",
     "return"}

\* C1: Wikidpad2Markdown never raises and always returns a string: no statement
\* raises, the function is always at one of its statements or at its return,
\* and the value returned is a sequence of characters
C1_NeverRaises ==
    /\ raised = FALSE
    /\ pc \in FunctionLabels
    /\ pc = "return" =>
          /\ DOMAIN markdown_text = 1..Len(markdown_text)
          /\ \A j \in 1..Len(markdown_text) : markdown_text[j] \in STRING

\* a text of pipes only, which is one table row, has been through
\* table_add_header and is returned
C1_Witness ==
    /\ pc = "return"
    /\ wiki_source = <<"|", "|", "\n">>
    /\ remove_remaining_wikidpad
    /\ markdown_text = <<"|", " ", " ", "|", " ", " ", "|", " ", " ", "|", "\n",
                         "|", " ", "-", "-", " ", "|", " ", "-", "-", " ",
                         "|", " ", "-", "-", " ", "|">>

\* C2: a line of n '+', one space and a caption of word characters becomes n '#',
\* one space and the caption, alone or between plain lines, for both values of
\* remove_remaining_wikidpad
C2_HeadingDepth ==
    pc = "return" =>
        \A b \in HeadingBefore, a \in HeadingAfter, n \in 1..MaxDepth, t \in HeadingTitles :
            wiki_source = b \o HeadingLine(n, t) \o a
            => markdown_text = b \o Rep("#", n) \o <<" ">> \o t \o a

C2_Witness ==
    /\ pc = "return"
    /\ remove_remaining_wikidpad
    /\ wiki_source = <<"+", "+", "+", " ", "a", "1">>
    /\ markdown_text = <<"#", "#", "#", " ", "a", "1">>

\* s holds two '//' that do not overlap (no line break lies between them in the
\* texts this is used on)
HasItalic(s) ==
    \E i, j \in 1..Len(s) :
        /\ j >= i + 2
        /\ j + 1 <= Len(s)
        /\ s[i] = "/" /\ s[i + 1] = "/" /\ s[j] = "/" /\ s[j + 1] = "/"

LinkResult(address, caption) == <<"[">> \o caption \o <<"]", "(">> \o address \o <<")">>

\* C3 as stated: "[address|caption]" becomes "[caption](address)" whatever the
\* emphasis and anchor statements do before the link statement
C3_PipedLinkAlways ==
    (pc = "return" /\ ~remove_remaining_wikidpad) =>
        \A address \in LinkAddresses, caption \in LinkTitles :
            wiki_source = LinkText(address, caption)
            => markdown_text = LinkResult(address, caption)

\* C3, amended: "[address|caption]" becomes "[caption](address)" when the text
\* holds neither two '//' that do not overlap nor 'anchor:'
C3_PipedLink ==
    (pc = "return" /\ ~remove_remaining_wikidpad) =>
        \A address \in LinkAddresses, caption \in LinkTitles :
            (/\ wiki_source = LinkText(address, caption)
             /\ ~HasItalic(wiki_source)
             /\ ~Occurs(AnchorWord, wiki_source))
            => markdown_text = LinkResult(address, caption)

C3_Witness ==
    /\ pc = "return"
    /\ ~remove_remaining_wikidpad
    /\ wiki_source = <<"[", "h", "t", "t", "p", ":", "/", "/", "x", "|",
                       "T", "i", "t", "l", "e", "]">>
    /\ markdown_text = <<"[", "T", "i", "t", "l", "e", "]", "(",
                         "h", "t", "t", "p", ":", "/", "/", "x", ")">>

RowOut(cells) ==
    <<"|", " ">> \o Join([j \in 1..Len(cells) |-> <<cells[j]>>], <<" ", "|", " ">>)
    \o <<" ", "|">>

SeparatorRow(n) == Times(<<"|", " ", "-", "-", " ">>, n) \o <<"|">>

\* the first row, the separator row, the other rows
TableOut(run) ==
    <<RowOut(run[1]), SeparatorRow(Len(run[1]))>>
    \o [j \in 1..(Len(run) - 1) |-> RowOut(run[j + 1])]

\* C4: a run of k table rows gives k reformatted rows, each on a line of its
\* own, and exactly one separator row, right after the first row, whether the
\* run is followed by a line break, by more text, or by the end of the text
C4_TableHeaderSynthesis ==
    pc = "return" =>
        \A run \in TableRuns, ending \in TableEndings :
            wiki_source = TableText(run, ending)
            => /\ IsPrefix(TableOut(run), Lines(markdown_text))
               /\ Cardinality({j \in 1..Len(Lines(markdown_text)) :
                      Lines(markdown_text)[j] = SeparatorRow(Len(run[1]))}) = 1

\* a '[' with a ']' after it on the same line
HasBracketSpan(s) ==
    \E i, j \in 1..Len(s) :
        i < j /\ s[i] = "[" /\ s[j] = "]" /\ \A k \in i..j : s[k] # "\n"

\* C5: with remove_remaining_wikidpad the result holds no 'anchor:' and no
\* bracketed span
C5_ResidualCleanup ==
    (pc = "return" /\ remove_remaining_wikidpad) =>
        /\ ~Occurs(AnchorWord, markdown_text)
        /\ ~HasBracketSpan(markdown_text)

\* C6: the result has no whitespace at either end and no CRLF
C6_FinalNormalization ==
    pc = "return" =>
        /\ markdown_text # <<>> =>
              /\ markdown_text[1] \notin Whitespace
              /\ markdown_text[Len(markdown_text)] \notin Whitespace
        /\ ~Occurs(<<"\r", "\n">>, markdown_text)

IsRule(line) == Len(line) >= 4 /\ \A j \in 1..Len(line) : line[j] = "-"

\* C7: every line of four or more hyphens becomes '---', wherever it is in the
\* document and whether the lines end in LF or in CRLF
C7_HorizontalRule ==
    pc = "return" =>
        \A lines \in SeqsUpTo(RuleLines, MaxLines) \ {<<>>}, eol \in LineEnds,
           last \in {<<>>} \cup LineEnds :
            wiki_source = RuleText(lines, eol, last)
            => \A j \in 1..Len(lines) :
                   IsRule(lines[j])
                   => /\ j <= Len(Lines(markdown_text))
                      /\ Lines(markdown_text)[j] = <<"-", "-", "-">>

\* the line starts with a character of first, or with whitespace and then one
StartsWith(line, first) == line # <<>> /\ line[1] \in first
StartsIndented(line, first) ==
    \E j \in 2..Len(line) : line[j] \in first /\ \A k \in 1..(j - 1) : line[k] \in Whitespace

\* no construct the statements before the final trimming look for
Clean(s) ==
    /\ ~Occurs(<<"/", "/">>, s)
    /\ ~Occurs(AnchorWord, s)
    /\ ~Occurs(<<"[">>, s)
    /\ \A j \in 1..Len(Lines(s)) :
           LET line == Lines(s)[j] IN
           /\ ~StartsWith(line, {"+", "*"})
           /\ ~StartsIndented(line, {"*"} \cup Digits)
           /\ ~IsRule(line)
           /\ Count(line, "|") < 2
           /\ ~IsPrefix(<<"<", "<", "|">>, line)
           /\ ~IsPrefix(<<">", ">">>, line)

\* C8: a text with no construct of the wiki dialect is returned as it is, but
\* for the trimming of the whole text and CRLF becoming LF
C8_IdempotentOnClean ==
    (pc = "return" /\ Clean(wiki_source)) => markdown_text = ReplaceCRLF(Strip(wiki_source))

\* C9: the Markdown of B.wiki is written to output_dir/B.md and its reference is
\* read from B.md beside the source
C9_OutputNaming ==
    \A j \in 1..Len(log) :
        /\ log[j].op = "write_md"
           => log[j].path = PathJoin(OutputDir, BaseOf(wiki_files[log[j].file]) \o DotMd)
        /\ log[j].op = "read_verify" => log[j].path = ReferencePath(wiki_files[log[j].file])

Spaces(n) == Rep(" ", n)

FirstIndex(s, c) == CHOOSE i \in 1..Len(s) : s[i] = c /\ \A j \in 1..(i - 1) : s[j] # c
LastIndex(s, c) == CHOOSE i \in 1..Len(s) : s[i] = c /\ \A j \in (i + 1)..Len(s) : s[j] # c

\* of a text with one "[...]", the address and the caption when the split is at
\* the pipe at place bar, and the text with the link rewritten that way
AddressUpTo(s, bar) == SubSeq(s, FirstIndex(s, "[") + 1, bar - 1)
CaptionFrom(s, bar) == SubSeq(s, bar + 1, LastIndex(s, "]") - 1)
SplitAt(s, bar) ==
    SubSeq(s, 1, FirstIndex(s, "[") - 1)
    \o LinkResult(AddressUpTo(s, bar), CaptionFrom(s, bar))
    \o SubSeq(s, LastIndex(s, "]") + 1, Len(s))

\* C11 as stated: of "[s1|...|sn]" with more than one pipe, the link statement
\* takes the text up to the last pipe as address, when it holds no '#', and the
\* text after the last pipe as caption
C11_SplitAtLastPipe ==
    (/\ pc = "links_plain"
     /\ wiki_source \in PipeSources
     /\ ~Occurs(<<"#">>, AddressUpTo(wiki_source, LastIndex(wiki_source, "|"))))
    => markdown_text = SplitAt(wiki_source, LastIndex(wiki_source, "|"))

\* C11, amended: the link statement receives "[s1|...|sn]" as it was written and
\* takes the text up to the first pipe as address, when that holds no '#', and
\* all that follows the first pipe, pipes included, as caption
C11_SplitAtFirstPipe ==
    (/\ wiki_source \in PipeSources
     /\ ~Occurs(<<"#">>, AddressUpTo(wiki_source, FirstIndex(wiki_source, "|"))))
    => /\ pc = "links_piped" => markdown_text = wiki_source
       /\ pc = "links_plain"
          => markdown_text = SplitAt(wiki_source, FirstIndex(wiki_source, "|"))

\* "[a|b|c]" has been through the link statement
C11_Witness ==
    /\ pc = "links_plain"
    /\ wiki_source = <<"[", "a", "|", "b", "|", "c", "]">>
    /\ markdown_text = <<"[", "b", "|", "c", "]", "(", "a", ")">>

\* the place of a step in the processing of one file
StepRank(op) ==
    CASE op = "read" -> 1
      [] op = "write_md" -> 2
      [] op = "read_verify" -> 3
      [] op = "write_html" -> 4
      [] op = "upload" -> 5

HasStep(op, f) == \E j \in 1..Len(log) : log[j].op = op /\ log[j].file = f

\* files one at a time, and for each file read, write, verify, render, upload
StepsInOrder ==
    \A i, j \in 1..Len(log) :
        i < j => \/ log[i].file < log[j].file
                 \/ /\ log[i].file = log[j].file
                    /\ StepRank(log[i].op) < StepRank(log[j].op)

\* no step of a file is taken before the steps the options ask for ahead of it
NoStepSkipped ==
    \A j \in 1..Len(log) :
        LET f == log[j].file
            r == StepRank(log[j].op)
        IN /\ r > 1 => HasStep("read", f)
           /\ r > 2 => HasStep("write_md", f)
           /\ (r > 3 /\ options.verify) => HasStep("read_verify", f)
           /\ (r > 4 /\ options.render) => HasStep("write_html", f)

\* the reference of the current file has been read and compared
Verified == main_pc \in {"render", "upload", "exit"} /\ HasStep("read_verify", file_idx)

\* the comparison of the current file with the reference RunMain read reports a
\* difference
Mismatch == better_diff(md_files[verify_path(_file)], markdown_content)

\* the steps the options ask for have all been taken for file f
AllStepsOf(f) ==
    /\ HasStep("read", f)
    /\ HasStep("write_md", f)
    /\ HasStep("read_verify", f) <=> options.verify
    /\ HasStep("write_html", f) <=> options.render
    /\ HasStep("upload", f) <=> options.ConfluenceURL

\* C12: the steps of RunMain are taken file by file in the order write Markdown,
\* verify, render, upload.  With verification and Strict, a file whose comparison
\* reports a difference ends the run with EXIT_CRITICAL: its Markdown is written,
\* it is neither rendered nor uploaded, and no later file is touched.  Without
\* Strict the run goes on with the render and upload steps of that file and
\* with the next file, and a run that ends normally has taken every step of
\* every file.
C12_StrictAbortOrdering ==
    /\ StepsInOrder
    /\ NoStepSkipped
    /\ Verified => options.verify
    /\ (Verified /\ Mismatch /\ options.Strict)
       => /\ main_pc = "exit"
          /\ exit_code = EXIT_CRITICAL
          /\ HasStep("write_md", file_idx)
          /\ ~HasStep("write_html", file_idx)
          /\ ~HasStep("upload", file_idx)
          /\ \A j \in 1..Len(log) : log[j].file <= file_idx
    /\ (Verified /\ ~(Mismatch /\ options.Strict))
       => main_pc \in {"render", "upload"}
    /\ main_pc \notin {"exit", "done"} => exit_code = NoExit
    /\ main_pc = "exit" => exit_code = EXIT_CRITICAL
    /\ main_pc = "done"
       => /\ exit_code = EXIT_OK
          /\ \A f \in 1..Len(wiki_files) : AllStepsOf(f)

\* the first file agrees with its reference and is rendered and uploaded; the
\* second differs, and the run has ended after its comparison
C12_Witness ==
    /\ main_pc = "exit"
    /\ exit_code = EXIT_CRITICAL
    /\ options = [verify |-> TRUE, Strict |-> TRUE, render |-> TRUE, ConfluenceURL |-> TRUE]
    /\ wiki_files = <<WikiFile(<<"a">>), WikiFile(<<"a", "k">>)>>
    /\ file_idx = 2
    /\ Mismatch
    /\ [j \in 1..Len(log) |-> <<log[j].file, log[j].op>>]
       = << <<1, "read">>, <<1, "write_md">>, <<1, "read_verify">>, <<1, "write_html">>,
            <<1, "upload">>, <<2, "read">>, <<2, "write_md">>, <<2, "read_verify">> >>

====
